---------------------------- MODULE Spec2Model ----------------------------
(***************************************************************************)
(* A model of twopingmicro.py: the 2ping responder for MicroPython.        *)
(*                                                                         *)
(* Bytes are integers in 0..255.  A Python bytes/bytearray/memoryview is a *)
(* sequence of bytes; Python index i is TLA+ index i+1.                     *)
(***************************************************************************)
EXTENDS Integers, Sequences, FiniteSets, TLC

VARIABLES
    program_version,   \* TwoPingMicro.program_version: the configured banner
    _reply_packet,     \* TwoPingMicro._reply_packet: the reused reply bytearray
    _sock,             \* TwoPingMicro._sock: "None", "open" or "closed"
    pc,                \* where the process is: "__init__", "run", "recvfrom",
                       \* "parse_packet", "sendto", "led_off", "exited", "raised"
    data,              \* run's local: the datagram of this loop iteration
    peer_address,      \* run's local: the sender of that datagram
    reply_packet,      \* run's local: "None", or "buf" (a reference to _reply_packet)
    exc,               \* the exception that ended the process, "None" if none
    sent,              \* the transport: what sendto was handed in this iteration
    call,              \* a direct call of a function: its arguments and results
                       \* (SpecChecksum, SpecPair, ...); NoCall in the process
    os_urandom,        \* the platform: whether the os module has urandom
    urandom,           \* TwoPingMicro.urandom: "None" before __init__, then
                       \* "os.urandom" or "mturandom"
    _mt,               \* TwoPingMicro._mt: NoMT (None) or the MT19937 object
    time_reads         \* the time source: how often time.time() was read

\* The identifier generator's part of the state.
gen == <<os_urandom, urandom, _mt, time_reads>>

vars == <<program_version, _reply_packet, _sock, pc, data, peer_address,
          reply_packet, exc, sent, call, os_urandom, urandom, _mt, time_reads>>

---------------------------------------------------------------------------
(* Bounds of the model. *)

\* The longest datagram the transport delivers in the model.
MaxLen == 14

\* The longest buffer twoping_checksum is called on directly (SpecChecksum).
MaxBuf == 6

---------------------------------------------------------------------------
(* Python sequence operations. *)

Min(a, b) == IF a < b THEN a ELSE b
Max(a, b) == IF a > b THEN a ELSE b

\* s[lo:hi] for 0 <= lo, 0 <= hi: the bounds are clamped to len(s).
Slice(s, lo, hi) ==
    LET l == Min(lo, Len(s))
        h == Min(hi, Len(s))
    IN  IF h <= l THEN <<>> ELSE SubSeq(s, l + 1, h)

\* s[lo:]
SliceFrom(s, lo) == Slice(s, lo, Len(s))

\* bytearray slice assignment  s[lo:hi] = val : the slice (clamped to len(s))
\* is replaced by val, whatever val's length is, so s may grow or shrink.
SliceAssign(s, lo, hi, val) ==
    LET l == Min(lo, Len(s))
        h == Max(l, Min(hi, Len(s)))
    IN  Slice(s, 0, l) \o val \o SliceFrom(s, h)

\* bytearray(n): n zero bytes.
Zeros(n) == [i \in 1..n |-> 0]

\* struct.unpack_from('!H', b, off)[0] is defined when the buffer holds two
\* bytes at off; otherwise struct.error is raised.
CanUnpackH(b, off) == Len(b) >= off + 2
UnpackH(b, off) == b[off + 1] * 256 + b[off + 2]

\* struct.pack('!H', v) for v in 0..65535
PackH(v) == <<v \div 256, v % 256>>

---------------------------------------------------------------------------
(* twoping_checksum *)

\* The term the loop of twoping_checksum adds for Python index i: a byte at
\* an odd index as it is, a byte at an even index shifted left by 8.
ChecksumTerm(d, i) == IF i % 2 = 1 THEN d[i + 1] ELSE d[i + 1] * 256

\* The sum of the terms of Python indexes lo..hi-1.  The loop adds them in
\* index order; the sum is split in halves here to keep the evaluation
\* shallow (Python integers do not overflow, so the order is immaterial).
RECURSIVE ChecksumSum(_, _, _)
ChecksumSum(d, lo, hi) ==
    IF hi <= lo THEN 0
    ELSE IF hi = lo + 1 THEN ChecksumTerm(d, lo)
    ELSE LET mid == (lo + hi) \div 2
         IN  ChecksumSum(d, lo, mid) + ChecksumSum(d, mid, hi)

\* checksum = (checksum >> 16) + (checksum & 0xffff)
Fold(c) == (c \div 65536) + (c % 65536)

\* checksum = ~checksum & 0xffff
Complement16(c) == 65535 - (c % 65536)

\* if checksum == 0: checksum = 0xffff
\* (ZeroSubstitute_NoSubstitution: the faulty variant without the substitution.)
ZeroSubstitute_NoSubstitution(c) == c
ZeroSubstitute(c) == IF c = 0 THEN 65535 ELSE c

twoping_checksum(d) ==
    ZeroSubstitute(Complement16(Fold(Fold(ChecksumSum(d, 0, Len(d))))))


---------------------------------------------------------------------------
(* TwoPingMicro.parse_packet *)

Magic == <<50, 80>>                        \* b'\x32\x50'
ExtendedTag == <<50, 80, 86, 78>>          \* b'\x32\x50\x56\x4e'
ReplyOpcodeFlags == <<128, 2>>             \* b'\x80\x02'
InReplyToLength == <<0, 6>>                \* b'\x00\x06'

\* The class attribute program_version = b'2ping MicroPython'
DefaultProgramVersion ==
    <<50, 112, 105, 110, 103, 32, 77, 105, 99, 114, 111, 80, 121, 116, 104, 111, 110>>

\* if packet[0:2] != b'\x32\x50': return
MagicOk(packet) == Slice(packet, 0, 2) = Magic

\* packet_zeroed = memoryview(b'\x32\x50\x00\x00' + packet[4:])
PacketZeroed(packet) == <<50, 80, 0, 0>> \o SliceFrom(packet, 4)

\* The checksum validation, given that the checksum field can be read:
\* a zero field is "no checksum", any other must equal the recomputed value.
\* (ChecksumOk_NotValidated: the faulty variant that skips the comparison.)
ChecksumOk_NotValidated(packet) == TRUE
ChecksumOk(packet) ==
    LET packet_checksum == UnpackH(packet, 2)
    IN  packet_checksum # 0 => twoping_checksum(PacketZeroed(packet)) = packet_checksum

\* message_id = packet[4:10]
\* (MessageId_FromOffset2: the faulty variant that reads packet[2:8].)
MessageId_FromOffset2(packet) == Slice(packet, 2, 8)
MessageId(packet) == Slice(packet, 4, 10)

\* opcode_flags & 0x0001
\* (ReplyRequested_AnyFlag: the faulty variant that tests every bit;
\* ReplyRequested_NoOtherFlag: the one that rejects unknown flag bits.)
ReplyRequested_AnyFlag(opcode_flags) == opcode_flags # 0
ReplyRequested_NoOtherFlag(opcode_flags) == opcode_flags = 1
ReplyRequested(opcode_flags) == opcode_flags % 2 = 1

\* bytes([0x00, v]) raises ValueError unless v is in range(0, 256).
FitsByte(v) == v >= 0 /\ v < 256

\* Lines 206-217: zero the buffer, then magic, fresh message id, opcode
\* flags and the In Reply To block.
\* (WriteHeader_NotZeroed: the faulty variant that writes the fields over
\* whatever the buffer held.)
WriteHeader_NotZeroed(buf, message_id, reply_message_id) ==
    LET b1 == SliceAssign(buf, 0, 2, Magic)
        b2 == SliceAssign(b1, 4, 10, reply_message_id)
        b3 == SliceAssign(b2, 10, 12, ReplyOpcodeFlags)
        b4 == SliceAssign(b3, 12, 14, InReplyToLength)
    IN  SliceAssign(b4, 14, 20, message_id)

WriteHeader(buf, message_id, reply_message_id) ==
    LET b0 == Zeros(Len(buf))
        b1 == SliceAssign(b0, 0, 2, Magic)
        b2 == SliceAssign(b1, 4, 10, reply_message_id)
        b3 == SliceAssign(b2, 10, 12, ReplyOpcodeFlags)
        b4 == SliceAssign(b3, 12, 14, InReplyToLength)
    IN  SliceAssign(b4, 14, 20, message_id)

\* Lines 221-225: the Extended block carrying the program version.
\* Defined when FitsByte(4 + 2 + len(program_version)).
\* (WriteExtended_LengthWithoutTag: the faulty variant whose block length
\* leaves out the tag and the length prefix.)
WriteExtended_LengthWithoutTag(buf, version) ==
    LET n  == Len(version)
        b1 == SliceAssign(buf, 20, 22, <<0, n>>)
        b2 == SliceAssign(b1, 22, 26, ExtendedTag)
        b3 == SliceAssign(b2, 26, 28, <<0, n>>)
    IN  SliceAssign(b3, 28, 28 + n, version)
WriteExtended(buf, version) ==
    LET n  == Len(version)
        b1 == SliceAssign(buf, 20, 22, <<0, 4 + 2 + n>>)
        b2 == SliceAssign(b1, 22, 26, ExtendedTag)
        b3 == SliceAssign(b2, 26, 28, <<0, n>>)
    IN  SliceAssign(b3, 28, 28 + n, version)

\* struct.pack_into('!H', buf, 2, twoping_checksum(buf))
\* (WriteChecksum_HeaderOnly: the faulty variant that sums the 12-byte
\* header alone.)
WriteChecksum_HeaderOnly(buf) ==
    SliceAssign(buf, 2, 4, PackH(twoping_checksum(Slice(buf, 0, 12))))
WriteChecksum(buf) == SliceAssign(buf, 2, 4, PackH(twoping_checksum(buf)))

\* The outcome of one call: ret is "None" (return without a value), "buf"
\* (return self._reply_packet) or "raise"; buf is the reply buffer the call
\* leaves behind; exc names the exception raised.
Outcome(ret, buf, e) == [ret |-> ret, buf |-> buf, exc |-> e]

parse_packet(packet, buf, version, reply_message_id) ==
    IF ~MagicOk(packet) THEN Outcome("None", buf, "None")
    ELSE IF ~CanUnpackH(packet, 2) THEN Outcome("raise", buf, "struct.error")
    ELSE IF ~ChecksumOk(packet) THEN Outcome("None", buf, "None")
    ELSE IF ~CanUnpackH(packet, 10) THEN Outcome("raise", buf, "struct.error")
    ELSE IF ~ReplyRequested(UnpackH(packet, 10)) THEN Outcome("None", buf, "None")
    ELSE LET hdr == WriteHeader(buf, MessageId(packet), reply_message_id)
         IN  IF ~FitsByte(4 + 2 + Len(version))
             THEN Outcome("raise", hdr, "ValueError")
             ELSE Outcome("buf", WriteChecksum(WriteExtended(hdr, version)), "None")

---------------------------------------------------------------------------
(* The inputs of the model: configurations, datagrams, peers, identifiers. *)

\* n bytes of banner text: 'A', 'B', ...
Text(n) == [i \in 1..n |-> 65 + (i % 26)]

\* The configured program_version values: the default, the empty banner,
\* the longest that fits the 128-byte buffer (100), the shortest that does
\* not (101), and the shortest whose block length is no byte (250).
ProgramVersions ==
    {DefaultProgramVersion, Text(0), Text(100), Text(101), Text(250)}

\* What urandom(6) may return.
Identifiers == { <<1, 2, 3, 4, 5, 6>>, <<255, 0, 255, 0, 255, 0>> }

PeerAddresses == {"peerA", "peerB"}

MagicValues == { <<50, 80>>, <<50, 81>>, <<0, 0>> }
MessageIds == { <<170, 170, 170, 170, 170, 170>>, <<0, 17, 34, 51, 68, 255>> }
\* opcode_flags 0x0000, 0x0001, 0x8003, 0xfffe
OpcodeFlags == { <<0, 0>>, <<0, 1>>, <<128, 3>>, <<255, 254>> }
\* Extension blocks after the header, unparsed by the responder.
Trailing(k, n) == [i \in 1..n |-> (k * (16 * i + 1)) % 256]
TrailingKinds == {0, 1}

\* A datagram with a zero checksum field, cut to len bytes.
RawDatagram(m, id, f, k, len) ==
    Slice(m \o <<0, 0>> \o id \o f \o Trailing(k, Max(0, len - 12)), 0, len)

\* The same datagram with its checksum field filled in as the kind says:
\* "zero" (absent), "valid" (the sender's checksum) or "corrupt" (another
\* non-zero value).
SenderChecksum(d) == twoping_checksum(SliceAssign(d, 2, 4, <<0, 0>>))
WithChecksum(d, kind) ==
    IF Len(d) < 4 \/ kind = "zero" THEN d
    ELSE IF kind = "valid" THEN SliceAssign(d, 2, 4, PackH(SenderChecksum(d)))
    ELSE SliceAssign(d, 2, 4, PackH((SenderChecksum(d) % 65535) + 1))
ChecksumKinds == {"zero", "valid", "corrupt"}

Datagrams ==
    { WithChecksum(RawDatagram(m, id, f, k, len), c) :
        m \in MagicValues, id \in MessageIds, f \in OpcodeFlags,
        k \in TrailingKinds, len \in 0..MaxLen, c \in ChecksumKinds }

NoCall == [phase |-> "None"]

\* _mt = None (line 123): the responder has no MT19937 object (yet).
NoMT == [index |-> -1, mt |-> <<>>]

---------------------------------------------------------------------------
(* The process: main, TwoPingMicro.__init__, run, close. *)

Init ==
    /\ program_version = DefaultProgramVersion
    /\ _reply_packet = Zeros(128)
    /\ _sock = "None"
    /\ pc = "__init__"
    /\ data = <<>>
    /\ peer_address = "None"
    /\ reply_packet = "None"
    /\ exc = "None"
    /\ sent = <<>>
    /\ call = NoCall
    /\ os_urandom = TRUE
    /\ urandom = "None"
    /\ _mt = NoMT
    /\ time_reads = 0

\* tp = TwoPingMicro(config): every key of config is set as an attribute;
\* nothing is validated.  self.urandom is os.urandom when the os module has
\* it and self.mturandom otherwise.  (led is False: no indicator light.)
__init__(version) ==
    /\ pc = "__init__"
    /\ program_version' = version
    /\ urandom' = IF os_urandom THEN "os.urandom" ELSE "mturandom"
    /\ pc' = "run"
    /\ UNCHANGED <<_reply_packet, _sock, data, peer_address, reply_packet,
                   exc, sent, call, os_urandom, _mt, time_reads>>

\* run, up to the loop: the socket is created and bound.
run ==
    /\ pc = "run"
    /\ _sock' = "open"
    /\ pc' = "recvfrom"
    /\ UNCHANGED <<program_version, _reply_packet, data, peer_address,
                   reply_packet, exc, sent, call, gen>>

\* (data, peer_address) = self._sock.recvfrom(1024)
recvfrom(d, peer) ==
    /\ pc = "recvfrom"
    /\ data' = d
    /\ peer_address' = peer
    /\ pc' = "parse_packet"
    /\ UNCHANGED <<program_version, _reply_packet, _sock, reply_packet, exc,
                   sent, call, gen>>

\* reply_packet = self.parse_packet(memoryview(data)); an exception is
\* re-raised by run's handler and, not being a KeyboardInterrupt, leaves
\* main uncaught: the process ends with that exception (whose traceback
\* holds run's frame), the socket never closed.
call_parse_packet(reply_message_id) ==
    /\ pc = "parse_packet"
    /\ urandom = "os.urandom"
    /\ LET r == parse_packet(data, _reply_packet, program_version, reply_message_id)
       IN  /\ _reply_packet' = r.buf
           /\ IF r.ret = "raise"
              THEN /\ pc' = "raised"
                   /\ exc' = r.exc
                   /\ UNCHANGED <<reply_packet, data, peer_address, sent>>
              ELSE /\ pc' = IF r.ret = "buf" THEN "sendto" ELSE "led_off"
                   /\ reply_packet' = r.ret
                   /\ UNCHANGED <<exc, data, peer_address, sent>>
    /\ UNCHANGED <<program_version, _sock, call, gen>>

\* sendto addressing every reply to one fixed peer instead of the sender.
sendto_ToFixedPeer ==
    /\ pc = "sendto"
    /\ sent' = Append(sent, [bytes |-> _reply_packet, to |-> "peerA"])
    /\ pc' = "led_off"
    /\ UNCHANGED <<program_version, _reply_packet, _sock, data, peer_address,
                   reply_packet, exc, call, gen>>

\* if reply_packet: self._sock.sendto(reply_packet, peer_address)
sendto ==
    /\ pc = "sendto"
    /\ sent' = Append(sent, [bytes |-> _reply_packet, to |-> peer_address])
    /\ pc' = "led_off"
    /\ UNCHANGED <<program_version, _reply_packet, _sock, data, peer_address,
                   reply_packet, exc, call, gen>>

\* A transport fault: recvfrom or sendto raises OSError, which nothing in
\* run or main catches: the process ends with it, the socket never closed.
recvfrom_raises ==
    /\ pc = "recvfrom"
    /\ pc' = "raised"
    /\ exc' = "OSError"
    /\ UNCHANGED <<program_version, _reply_packet, _sock, data, peer_address,
                   reply_packet, sent, call, gen>>

sendto_raises ==
    /\ pc = "sendto"
    /\ pc' = "raised"
    /\ exc' = "OSError"
    /\ UNCHANGED <<program_version, _reply_packet, _sock, data, peer_address,
                   reply_packet, sent, call, gen>>

\* The end of the loop body (if self.led: self._led_off()) and back to
\* recvfrom.  The locals of the finished iteration are dead: recvfrom
\* overwrites data and peer_address, parse_packet's return overwrites
\* reply_packet.
led_off ==
    /\ pc = "led_off"
    /\ pc' = "recvfrom"
    /\ data' = <<>>
    /\ peer_address' = "None"
    /\ reply_packet' = "None"
    /\ sent' = <<>>
    /\ UNCHANGED <<program_version, _reply_packet, _sock, exc, call, gen>>

\* KeyboardInterrupt inside tp.run(): main catches it and calls tp.close().
close ==
    /\ pc \in {"recvfrom", "parse_packet", "sendto", "led_off"}
    /\ _sock' = "closed"
    /\ pc' = "exited"
    /\ data' = <<>>
    /\ peer_address' = "None"
    /\ reply_packet' = "None"
    /\ sent' = <<>>
    /\ UNCHANGED <<program_version, _reply_packet, exc, call, gen>>

Next ==
    \/ \E version \in ProgramVersions : __init__(version)
    \/ run
    \/ \E d \in Datagrams, peer \in PeerAddresses : recvfrom(d, peer)
    \/ \E id \in Identifiers : call_parse_packet(id)
    \/ sendto
    \/ recvfrom_raises
    \/ sendto_raises
    \/ led_off
    \/ close

Spec == Init /\ [][Next]_vars

---------------------------------------------------------------------------
(* twoping_checksum called directly on every buffer of up to MaxBuf bytes  *)
(* over ChecksumBytes.                                                     *)

ChecksumBytes == {0, 1, 128, 255}

RECURSIVE Buffers(_)
Buffers(n) ==
    IF n = 0 THEN { <<>> }
    ELSE LET shorter == Buffers(n - 1)
         IN  shorter \cup { Append(b, x) : b \in { c \in shorter : Len(c) = n - 1 },
                                           x \in ChecksumBytes }

\* The process variables do not take part in a direct call.
ProcessIdle ==
    /\ program_version = DefaultProgramVersion
    /\ _reply_packet = Zeros(128)
    /\ _sock = "None"
    /\ pc = "__init__"
    /\ data = <<>>
    /\ peer_address = "None"
    /\ reply_packet = "None"
    /\ exc = "None"
    /\ sent = <<>>

\* No responder has been constructed: no generator is selected or created.
GeneratorIdle ==
    /\ os_urandom = TRUE
    /\ urandom = "None"
    /\ _mt = NoMT
    /\ time_reads = 0

InitChecksum ==
    /\ ProcessIdle
    /\ GeneratorIdle
    /\ call \in { [phase |-> "called", d |-> b, checksum |-> -1] : b \in Buffers(MaxBuf) }

call_twoping_checksum ==
    /\ call.phase = "called"
    /\ call' = [call EXCEPT !.phase = "returned", !.checksum = twoping_checksum(call.d)]
    /\ UNCHANGED <<program_version, _reply_packet, _sock, pc, data, peer_address,
                   reply_packet, exc, sent, gen>>

NextChecksum == call_twoping_checksum

SpecChecksum == InitChecksum /\ [][NextChecksum]_vars

---------------------------------------------------------------------------
(* parse_packet called in two independent responders, with the same        *)
(* configuration and the same fresh identifier, on two datagrams that      *)
(* differ only in content the responder does not parse.                    *)

\* Datagrams of at least 12 bytes with the magic and a zero checksum field.
Unchecksummed ==
    { d \in Datagrams : Len(d) >= 12 /\ Slice(d, 0, 4) = <<50, 80, 0, 0>> }

\* d1 and d2 agree on the message id and on bit 0 of opcode_flags; they may
\* differ in the other flag bits and from offset 12 on.
SameKnownContent(d1, d2) ==
    /\ Slice(d1, 4, 10) = Slice(d2, 4, 10)
    /\ d1[12] % 2 = d2[12] % 2

\* The reply buffer of a responder: as constructed, or as an earlier reply
\* (to message id ff ff ff ff ff ff) left it.
EarlierDatagram == <<50, 80, 0, 0, 255, 255, 255, 255, 255, 255, 0, 1>>
EarlierIdentifier == <<9, 8, 7, 6, 5, 4>>
ReplyBuffer(kind, version) ==
    IF kind = "constructed" THEN Zeros(128)
    ELSE parse_packet(EarlierDatagram, Zeros(128), version, EarlierIdentifier).buf

PairInputs ==
    { p \in Unchecksummed \X Unchecksummed : SameKnownContent(p[1], p[2]) }

InitPair ==
    /\ ProcessIdle
    /\ GeneratorIdle
    /\ call \in { [phase |-> "called", version |-> v, id |-> id,
                   d1 |-> p[1], buf1 |-> Zeros(128),
                   ret1 |-> "None", exc1 |-> "None",
                   d2 |-> p[2], buf2 |-> ReplyBuffer(kind, v),
                   ret2 |-> "None", exc2 |-> "None"] :
                  v \in ProgramVersions, id \in Identifiers, p \in PairInputs,
                  kind \in {"constructed", "used"} }

call_parse_packet_twice ==
    /\ call.phase = "called"
    /\ LET r1 == parse_packet(call.d1, call.buf1, call.version, call.id)
           r2 == parse_packet(call.d2, call.buf2, call.version, call.id)
       IN  call' = [call EXCEPT !.phase = "returned",
                                !.buf1 = r1.buf, !.ret1 = r1.ret, !.exc1 = r1.exc,
                                !.buf2 = r2.buf, !.ret2 = r2.ret, !.exc2 = r2.exc]
    /\ UNCHANGED <<program_version, _reply_packet, _sock, pc, data, peer_address,
                   reply_packet, exc, sent, gen>>

NextPair == call_parse_packet_twice

SpecPair == InitPair /\ [][NextPair]_vars

---------------------------------------------------------------------------
(* Properties of the process (Spec). *)

\* A banner fits the 128-byte reply buffer: 28 + len(banner) <= 128.
FitsBuffer(version) == 28 + Len(version) <= 128

\* A reply has been produced for the datagram of this iteration:
\* parse_packet returned the buffer (and it may already have been sent).
ReplyProduced == reply_packet = "buf"

\* The 16-bit big-endian field at Python offset off of b.
Field16(b, off) == b[off + 1] * 256 + b[off + 2]

\* b with its checksum field (Python bytes 2-3) replaced by zeros.
ChecksumFieldZeroed(b) == [i \in 1..Len(b) |-> IF i \in {3, 4} THEN 0 ELSE b[i]]

\* C1: for every datagram of any length and content, parse_packet ends in a
\* discard or a reply and never raises an exception (struct.error or
\* ValueError, those it can raise) to its caller (the banner fitting the
\* buffer, so that the datagram alone decides); a
\* datagram that starts with the magic but is shorter than 12 bytes is
\* discarded.
C1_ParsePacketNeverRaises ==
    /\ FitsBuffer(program_version) => exc \notin {"struct.error", "ValueError"}
    /\ (pc \in {"sendto", "led_off", "raised"} /\ MagicOk(data) /\ Len(data) < 12)
          => (pc = "led_off" /\ reply_packet = "None")

\* C2: no input datagram makes the responder stop serving: from processing a
\* datagram the run loop goes on to the send or to the end of the iteration
\* (or is stopped by the operator's keyboard interrupt), and never ends with
\* an exception.
C2_LoopSurvivesEveryDatagram ==
    [][(pc = "parse_packet" /\ FitsBuffer(program_version))
          => pc' \in {"sendto", "led_off", "exited"}]_vars

\* The acceptance condition of the data model: the first two bytes are
\* 0x3250 and the checksum field is 0 or equals twoping_checksum of the
\* datagram with the field zeroed.
Accepted(d) ==
    /\ Len(d) >= 4
    /\ d[1] = 50 /\ d[2] = 80
    /\ \/ Field16(d, 2) = 0
       \/ Field16(d, 2) = twoping_checksum(ChecksumFieldZeroed(d))

\* C3: a reply is produced for a datagram only if its first two bytes are
\* 0x3250 and its checksum field is 0 or equals twoping_checksum of the
\* datagram with the field zeroed; nothing is sent otherwise.
C3_ReplyOnlyIfAccepted ==
    (ReplyProduced \/ sent # <<>>) => Accepted(data)

\* C3's case: a reply was sent for a datagram carrying a (valid) non-zero
\* checksum.
C3_Witness ==
    /\ pc = "led_off" /\ Len(sent) = 1
    /\ Field16(data, 2) # 0

\* C4: a datagram whose opcode_flags have bit 0 clear gets no reply and
\* nothing is sent, whatever its other fields are.
C4_NoReplyUnlessRequested ==
    (Len(data) >= 12 /\ Field16(data, 10) % 2 = 0)
        => (reply_packet = "None" /\ sent = <<>> /\ pc # "sendto")

\* C4's case: an otherwise acceptable datagram (magic, valid non-zero
\* checksum, trailing bytes) with flags 0xfffe has been processed.
C4_Witness ==
    /\ pc = "led_off"
    /\ Len(data) > 12 /\ Accepted(data) /\ Field16(data, 2) # 0
    /\ Field16(data, 10) = 65534

\* reply answers d: bytes 0-1 = 0x3250, bytes 10-11 = 0x8002, bytes 12-13 =
\* 0x0006 and bytes 14-19 equal to bytes 4-9 of d.
ReplyHeader(reply, d) ==
    /\ Len(reply) >= 20
    /\ Field16(reply, 0) = 12880
    /\ Field16(reply, 10) = 32770
    /\ Field16(reply, 12) = 6
    /\ \A i \in 0..5 : reply[14 + i + 1] = d[4 + i + 1]

\* C5: for every accepted datagram with opcode_flags bit 0 set (and a banner
\* that fits) a reply is produced, and the reply produced has bytes
\* 0-1 = 0x3250, 10-11 = 0x8002, 12-13 = 0x0006 and bytes 14-19 equal to
\* bytes 4-9 (message_id) of that datagram.
C5_InReplyToEchoesMessageId ==
    /\ (/\ pc \in {"sendto", "led_off"}
        /\ Len(data) >= 12 /\ Accepted(data) /\ Field16(data, 10) % 2 = 1
        /\ FitsBuffer(program_version)) => ReplyProduced
    /\ ReplyProduced => ReplyHeader(_reply_packet, data)
    /\ \A i \in 1..Len(sent) : ReplyHeader(sent[i].bytes, data)

\* C5's case: a reply to a datagram with message id 00 11 22 33 44 ff and a
\* fitting banner has been sent.
C5_Witness ==
    /\ pc = "led_off" /\ Len(sent) = 1
    /\ FitsBuffer(program_version)
    /\ SubSeq(data, 5, 10) = <<0, 17, 34, 51, 68, 255>>

\* reply carries a non-zero checksum field equal to twoping_checksum of the
\* reply with the field zeroed, and passes the decoder's magic and checksum
\* validation.
SelfConsistent(reply) ==
    /\ Field16(reply, 2) # 0
    /\ Field16(reply, 2) = twoping_checksum(ChecksumFieldZeroed(reply))
    /\ MagicOk(reply) /\ ChecksumOk(reply)

\* C6: every reply is self-consistent: its checksum field is non-zero and
\* equals twoping_checksum of the reply with the field zeroed, so the
\* decoder's checksum validation never discards it.
C6_ReplyChecksumValidates ==
    /\ ReplyProduced => SelfConsistent(_reply_packet)
    /\ \A i \in 1..Len(sent) : SelfConsistent(sent[i].bytes)

\* C6's case: a reply carrying the longest fitting banner has been sent.
C6_Witness ==
    /\ pc = "led_off" /\ Len(sent) = 1
    /\ Len(program_version) = 100
    /\ Len(sent[1].bytes) = 128

\* reply carries the Extended block for the banner: bytes 20-21 = N+6,
\* 22-25 = 0x3250564E, 26-27 = N, 28..28+N-1 = the banner, N its length.
ExtendedBlock(reply, version) ==
    LET n == Len(version)
    IN  /\ Len(reply) >= 28 + n
        /\ Field16(reply, 20) = n + 6
        /\ SubSeq(reply, 23, 26) = <<50, 80, 86, 78>>
        /\ Field16(reply, 26) = n
        /\ SubSeq(reply, 29, 28 + n) = version

\* C9: every reply carries the Extended block at fixed offsets: bytes
\* 20-21 = N+6 (big-endian), 22-25 = 0x3250564E, 26-27 = N (big-endian),
\* 28..28+N-1 = the banner bytes, N being the configured banner's length.
C9_ExtendedBlockAtFixedOffsets ==
    /\ ReplyProduced => ExtendedBlock(_reply_packet, program_version)
    /\ \A i \in 1..Len(sent) : ExtendedBlock(sent[i].bytes, program_version)

\* C9's case: a reply carrying the default 17-byte banner has been sent.
C9_Witness ==
    /\ pc = "led_off" /\ Len(sent) = 1
    /\ program_version = DefaultProgramVersion

\* C10: a banner too large for the 128-byte buffer is a construction-time
\* fault: the constructor fails, the responder never runs with it, and no
\* reply is built or sent with it.
C10_OversizedBannerFailsAtStartup ==
    ~FitsBuffer(program_version)
        => (pc \notin {"run", "recvfrom", "parse_packet", "sendto", "led_off"}
            /\ reply_packet = "None" /\ sent = <<>>)

---------------------------------------------------------------------------
(* Properties of twoping_checksum (SpecChecksum). *)

\* C7: for every byte buffer, of any length, twoping_checksum returns a
\* value in [1, 0xFFFF]: never 0.
C7_ChecksumNeverZero ==
    call.phase = "returned" => (call.checksum >= 1 /\ call.checksum <= 65535)

\* C7's case: the one's complement of the folded sum is 0 (the folded sum of
\* an odd-length buffer is 0xFFFF) and 0xFFFF is returned in its place.
C7_Witness ==
    /\ call.phase = "returned"
    /\ Len(call.d) % 2 = 1
    /\ Fold(Fold(ChecksumSum(call.d, 0, Len(call.d)))) = 65535
    /\ call.checksum = 65535

---------------------------------------------------------------------------
(* Properties of two independent decodes (SpecPair). *)

\* C8: two datagrams of at least 12 bytes with the magic, checksum field 0,
\* the same message id and the same opcode_flags bit 0, differing only in
\* flag bits 1-15 and in the bytes from offset 12 on, get the same
\* reply/no-reply decision and, with the same fresh identifier,
\* byte-identical replies.
C8_UnknownContentIgnored ==
    call.phase = "returned"
        => /\ call.ret1 = call.ret2
           /\ call.exc1 = call.exc2
           /\ call.ret1 = "buf" => call.buf1 = call.buf2

\* C8's case: both datagrams were answered; they differ in the flag bits
\* 1-15 and in their trailing bytes, and the second responder's buffer held
\* an earlier reply.
C8_Witness ==
    /\ call.phase = "returned"
    /\ call.ret1 = "buf" /\ call.ret2 = "buf"
    /\ Field16(call.d1, 10) = 1 /\ Field16(call.d2, 10) = 32771
    /\ Len(call.d1) = 12 /\ Len(call.d2) > 12
    /\ call.buf2[15] = 170

---------------------------------------------------------------------------
(* Properties of the process, continued (Spec). *)

\* C11: whenever the run loop stops, by keyboard interrupt or by any fault
\* propagating out of receive, processing or send, the socket opened by run
\* is closed before the program leaves main.
C11_SocketClosedWhenLoopStops ==
    pc \in {"exited", "raised"} => _sock = "closed"

\* The reply as the wire format lays it out, composed field by field from
\* the message id of the datagram, the banner and the identifier alone: the
\* 28 + n populated bytes, zeros up to the 128th byte, and the checksum of
\* all of it in bytes 2-3.
ExpectedReply(message_id, version, reply_message_id) ==
    LET n == Len(version)
        populated == <<50, 80, 0, 0>> \o reply_message_id \o <<128, 2>>
                     \o <<0, 6>> \o message_id
                     \o <<0, n + 6>> \o <<50, 80, 86, 78>> \o <<0, n>> \o version
        unsummed == populated \o [i \in 1..(128 - Len(populated)) |-> 0]
        c == twoping_checksum(unsummed)
    IN  [i \in 1..Len(unsummed) |->
            IF i = 3 THEN c \div 256 ELSE IF i = 4 THEN c % 256 ELSE unsummed[i]]

\* C15: nothing carries over in the reply buffer: after any sequence of
\* earlier datagrams, the reply is exactly the bytes determined by the
\* datagram's message id, the banner and the identifier, and every byte
\* from offset 28 + len(banner) on is zero.
C15_NoCarryOverInReplyBuffer ==
    ReplyProduced =>
        /\ \E id \in Identifiers :
              _reply_packet = ExpectedReply(Slice(data, 4, 10), program_version, id)
        /\ \A i \in (28 + Len(program_version) + 1)..Len(_reply_packet) :
              _reply_packet[i] = 0

\* C15's case: a reply carrying the second identifier and the default banner
\* has been built, its tail of 83 bytes zero.
C15_Witness ==
    /\ pc = "sendto" /\ ReplyProduced
    /\ program_version = DefaultProgramVersion
    /\ Slice(_reply_packet, 4, 10) \in Identifiers
    /\ Slice(_reply_packet, 14, 20) = <<0, 17, 34, 51, 68, 255>>
    /\ Len(_reply_packet) = 128 /\ _reply_packet[46] = 0 /\ _reply_packet[128] = 0

\* C18: datagrams are handled one at a time: within an iteration (between
\* two receives) at most one send happens; it carries the reply built for
\* the datagram just received, to that datagram's peer; nothing is sent for
\* a datagram that was discarded or did not request a reply.
C18_OneReplyPerDatagramToItsPeer ==
    /\ Len(sent) <= 1
    /\ \A i \in 1..Len(sent) :
          /\ sent[i].to = peer_address
          /\ sent[i].bytes = _reply_packet
          /\ ReplyHeader(sent[i].bytes, data)
    /\ sent # <<>> =>
          /\ ReplyProduced
          /\ Accepted(data)
          /\ ReplyRequested(UnpackH(data, 10))
    /\ pc = "recvfrom" => sent = <<>>

\* C18's case: the reply to a datagram from peerB has been sent to peerB.
C18_Witness ==
    /\ pc = "led_off" /\ Len(sent) = 1
    /\ peer_address = "peerB" /\ sent[1].to = "peerB"

\* C20: the reply buffer has fixed capacity: in every reachable state, for
\* any configured banner, the buffer is exactly 128 bytes long and every
\* reply handed to the transport is exactly 128 bytes.
C20_ReplyBufferAlways128Bytes ==
    /\ Len(_reply_packet) = 128
    /\ \A i \in 1..Len(sent) : Len(sent[i].bytes) = 128

---------------------------------------------------------------------------
(* Python integers of the generator.  An integer x >= 0 is the pair
   <<x \div 65536, x % 65536>>: a 16-bit low half and a high half that is
   below 65536 exactly when x is in [0, 2^32).  The operators compute what
   Python's ^, &, >>, <<, + and * compute on unbounded integers. *)

\* a ^ b and a & b bit by bit, tabulated for 4-bit operands; BitXor and
\* BitAnd then work 4 bits at a time.
RECURSIVE XorByBits(_, _)
XorByBits(a, b) ==
    IF a = 0 THEN b
    ELSE IF b = 0 THEN a
    ELSE ((a + b) % 2) + 2 * XorByBits(a \div 2, b \div 2)

RECURSIVE AndByBits(_, _)
AndByBits(a, b) ==
    IF a = 0 \/ b = 0 THEN 0
    ELSE (a % 2) * (b % 2) + 2 * AndByBits(a \div 2, b \div 2)

XorTable == [a \in 0..15 |-> [b \in 0..15 |-> XorByBits(a, b)]]
AndTable == [a \in 0..15 |-> [b \in 0..15 |-> AndByBits(a, b)]]

RECURSIVE BitXor(_, _)
BitXor(a, b) ==
    IF a = 0 THEN b
    ELSE IF b = 0 THEN a
    ELSE XorTable[a % 16][b % 16] + 16 * BitXor(a \div 16, b \div 16)

RECURSIVE BitAnd(_, _)
BitAnd(a, b) ==
    IF a = 0 \/ b = 0 THEN 0
    ELSE AndTable[a % 16][b % 16] + 16 * BitAnd(a \div 16, b \div 16)

\* x ^ y
Xor(x, y) == <<BitXor(x[1], y[1]), BitXor(x[2], y[2])>>

\* x & y
And(x, y) == <<BitAnd(x[1], y[1]), BitAnd(x[2], y[2])>>

\* x >> k, for the shifts of the source (1, 11, 18, 30)
Shr(x, k) ==
    IF k >= 16
    THEN LET h == x[1] \div 2^(k - 16) IN <<h \div 65536, h % 65536>>
    ELSE <<x[1] \div 2^k, (x[1] % 2^k) * 2^(16 - k) + x[2] \div 2^k>>

\* x << k, for the shifts of the source (7, 15); nothing is cut off
Shl(x, k) ==
    LET l == x[2] * 2^k IN <<x[1] * 2^k + l \div 65536, l % 65536>>

\* x + y
Add(x, y) ==
    LET l == x[2] + y[2] IN <<x[1] + y[1] + l \div 65536, l % 65536>>

\* (m * v) % 65536 for m, v in 0..65535
MulMod16(m, v) == (((m * (v \div 256)) % 256) * 256 + m * (v % 256)) % 65536

\* (m * x) % 2^32 for m in [0, 2^32): the low 32 bits of the product, which
\* depend on the low 32 bits of x only.
MulLow32(m, x) ==
    LET xh == x[1] % 65536
        xl == x[2]
        p  == m[2] * (xl \div 256)
        t  == (p % 256) * 256 + m[2] * (xl % 256)
        c  == p \div 256 + t \div 65536
    IN  <<(c + MulMod16(m[1], xl) + MulMod16(m[2], xh)) % 65536, t % 65536>>

\* The integer n (below 2^31) as a pair.
Word(n) == <<n \div 65536, n % 65536>>

---------------------------------------------------------------------------
(* class MT19937 *)

\* The length of the state array: [0] * 624, range(624), index >= 624.
N == 624

\* twist's offset: self.mt[(i + 397) % 624]
M == 397

\* 1812433253, the multiplier of the initialisation recurrence
InitMultiplier == <<27655, 35173>>

\* 0x9908b0df
TwistConstant == <<39176, 45279>>

\* 0x80000000 and 0x7fffffff
UpperMask == <<32768, 0>>
LowerMask == <<32767, 65535>>

\* 2636928640 and 4022730752
TemperMaskB == <<40236, 22144>>
TemperMaskC == <<61382, 0>>

\* _int32: int(0xFFFFFFFF & x)
_int32(x) == <<x[1] % 65536, x[2]>>

\* Python's self.mt[i]: the sequences of the model count from 1.
At(mt, i) == mt[i + 1]

\* One round of __init__'s loop:
\* self.mt[i] = self._int32(1812433253 * (self.mt[i-1] ^ self.mt[i-1] >> 30) + i)
InitStep(mt, i) ==
    LET prev == At(mt, i - 1)
        x    == Xor(prev, Shr(prev, 30))
    IN  [mt EXCEPT ![i + 1] = _int32(Add(MulLow32(InitMultiplier, x), Word(i)))]

\* The rounds lo..hi of __init__'s loop, in order (the first half of the
\* rounds is carried out before the second half is begun).
RECURSIVE InitLoop(_, _, _)
InitLoop(mt, lo, hi) ==
    IF lo > hi THEN mt
    ELSE IF lo = hi THEN InitStep(mt, lo)
    ELSE LET mid  == (lo + hi) \div 2
             done == InitLoop(mt, lo, mid)
         IN  IF Len(done) = N THEN InitLoop(done, mid + 1, hi) ELSE done

\* MT19937(seed): the seed is stored as given, not reduced to 32 bits.
MT19937(seed) ==
    [index |-> N,
     mt    |-> InitLoop([[i \in 1..N |-> <<0, 0>>] EXCEPT ![1] = seed], 1, N - 1)]

\* One round of twist's loop, in place.
\* (TwistStep_NoConstant: the faulty variant that never applies 0x9908b0df.)
TwistStep_NoConstant(mt, i) ==
    LET y == _int32(Add(And(At(mt, i), UpperMask),
                        And(At(mt, (i + 1) % N), LowerMask)))
    IN  [mt EXCEPT ![i + 1] = Xor(At(mt, (i + M) % N), Shr(y, 1))]

TwistStep(mt, i) ==
    LET y == _int32(Add(And(At(mt, i), UpperMask),
                        And(At(mt, (i + 1) % N), LowerMask)))
        v == Xor(At(mt, (i + M) % N), Shr(y, 1))
    IN  [mt EXCEPT ![i + 1] = IF y[2] % 2 # 0 THEN Xor(v, TwistConstant) ELSE v]

\* The rounds lo..hi of twist's loop, in order.
RECURSIVE TwistLoop(_, _, _)
TwistLoop(mt, lo, hi) ==
    IF lo > hi THEN mt
    ELSE IF lo = hi THEN TwistStep(mt, lo)
    ELSE LET mid  == (lo + hi) \div 2
             done == TwistLoop(mt, lo, mid)
         IN  IF Len(done) = N THEN TwistLoop(done, mid + 1, hi) ELSE done

\* twist
twist(g) == [index |-> 0, mt |-> TwistLoop(g.mt, 0, N - 1)]

\* The tempering of extract_number: y ^ y >> 11, y ^ y << 7 & 2636928640,
\* y ^ y << 15 & 4022730752, y ^ y >> 18 (shifts bind tighter than &, & than ^).
Temper(y0) ==
    LET y1 == Xor(y0, Shr(y0, 11))
        y2 == Xor(y1, And(Shl(y1, 7), TemperMaskB))
        y3 == Xor(y2, And(Shl(y2, 15), TemperMaskC))
    IN  Xor(y3, Shr(y3, 18))

\* extract_number: the generator after the call, the value returned, and
\* whether the call ran twist.
extract_number(g) ==
    LET twisted == g.index >= N
        g1 == IF twisted THEN twist(g) ELSE g
    IN  [gen      |-> [index |-> g1.index + 1, mt |-> g1.mt],
         value    |-> _int32(Temper(At(g1.mt, g1.index))),
         twisted  |-> twisted]

---------------------------------------------------------------------------
(* The canonical MT19937 (mt19937ar.c: init_genrand, genrand_int32), on
   32-bit unsigned words: the seed is reduced to 32 bits, a whole block of
   624 words is regenerated at once, in the three runs of the reference
   (kk < 227 reads word kk + 397 of the old block, kk >= 227 reads word
   kk - 227 of the new one, the last word wraps to word 0), and every shift
   is cut to 32 bits. *)

\* x | y on 32-bit words
Or(x, y) == Xor(Xor(x, y), And(x, y))

\* (x << k) & 0xffffffff
Shl32(x, k) ==
    LET l == x[2] * 2^k
    IN  <<((x[1] % 2^(16 - k)) * 2^k + l \div 65536) % 65536, l % 65536>>

RECURSIVE RefInit(_, _, _)
RefInit(s, lo, hi) ==
    IF lo = hi
    THEN <<s>>
    ELSE LET mid   == (lo + hi) \div 2
             left  == RefInit(s, lo, mid)
             prev  == left[Len(left)]
             first == _int32(Add(MulLow32(InitMultiplier, Xor(prev, Shr(prev, 30))),
                                 Word(mid + 1)))
         IN  IF Len(left) > 0 THEN left \o RefInit(first, mid + 1, hi) ELSE left

\* mag01[y & 1] applied to mt[kk + M] ^ (y >> 1), y = (upper & UPPER) | (next & LOWER)
RefWord(upper, next, far) ==
    LET y == Or(And(upper, UpperMask), And(next, LowerMask))
        v == Xor(far, Shr(y, 1))
    IN  IF y[2] % 2 = 1 THEN Xor(v, TwistConstant) ELSE v

RefBlock(old) ==
    LET a == [kk \in 1..(N - M) |-> RefWord(old[kk], old[kk + 1], old[kk + M])]
        b == [kk \in 1..(N - M) |->
                 RefWord(old[N - M + kk], old[N - M + kk + 1], a[kk])]
        c == [kk \in 1..(2 * M - N - 1) |->
                 RefWord(old[2 * (N - M) + kk], old[2 * (N - M) + kk + 1], b[kk])]
        z == RefWord(old[N], a[1], b[2 * M - N])
    IN  a \o b \o c \o <<z>>

RefTemper(y0) ==
    LET y1 == Xor(y0, Shr(y0, 11))
        y2 == Xor(y1, And(Shl32(y1, 7), TemperMaskB))
        y3 == Xor(y2, And(Shl32(y2, 15), TemperMaskC))
    IN  Xor(y3, Shr(y3, 18))

\* init_genrand(s)
Reference(s) == [mti |-> N, mt |-> RefInit(_int32(s), 0, N - 1)]

\* genrand_int32: the generator after the call and the word returned.
ReferenceNext(r) ==
    LET block == IF r.mti >= N THEN RefBlock(r.mt) ELSE r.mt
        mti   == IF r.mti >= N THEN 0 ELSE r.mti
    IN  [gen |-> [mti |-> mti + 1, mt |-> block], value |-> RefTemper(block[mti + 1])]

---------------------------------------------------------------------------
(* An MT19937 object constructed with a seed and extract_number called on
   it repeatedly; the canonical generator runs beside it. *)

\* The number of extract_number calls followed: past the second twist.
MaxExtractions == 626

\* Seeds: 0, the reference's default 5489, a time.time() of late 2026,
\* 2^32 - 1, and 2^32 (a time.time() of the year 2106).
Seeds == {<<0, 0>>, <<0, 5489>>, <<27359, 576>>, <<65535, 65535>>, <<65536, 0>>}

InitMT ==
    /\ ProcessIdle
    /\ os_urandom = TRUE
    /\ urandom = "None"
    /\ time_reads = 0
    /\ \E seed \in Seeds :
          /\ _mt = MT19937(seed)
          /\ call = [phase |-> "MT19937", seed |-> seed, extractions |-> 0,
                     value |-> <<0, 0>>, twisted |-> FALSE, twists |-> 0,
                     reference |-> Reference(seed), reference_value |-> <<0, 0>>]

call_extract_number ==
    /\ call.phase \in {"MT19937", "extract_number"}
    /\ call.extractions < MaxExtractions
    /\ LET e == extract_number(_mt)
           r == ReferenceNext(call.reference)
       IN  /\ _mt' = e.gen
           /\ call' = [call EXCEPT !.phase = "extract_number",
                                   !.extractions = @ + 1,
                                   !.value = e.value,
                                   !.twisted = e.twisted,
                                   !.twists = IF e.twisted THEN @ + 1 ELSE @,
                                   !.reference = r.gen,
                                   !.reference_value = r.value]
    /\ UNCHANGED <<program_version, _reply_packet, _sock, pc, data, peer_address,
                   reply_packet, exc, sent, os_urandom, urandom, time_reads>>

NextMT == call_extract_number

SpecMT == InitMT /\ [][NextMT]_vars

\* C12: for every seed in [0, 2^32), each word returned by extract_number
\* equals the word the canonical MT19937 returns at the same position of
\* the sequence, through the first block, the twist boundary and beyond.
C12_MatchesCanonicalMT19937 ==
    (call.phase = "extract_number" /\ call.seed[1] < 65536) =>
        call.value = call.reference_value

\* C12's case: the 625th word for the seed 5489 (the second block, after
\* the second twist) has been extracted; so was the reference's first word
\* 3499211612 for that seed before it.
C12_Witness ==
    /\ call.phase = "extract_number"
    /\ call.seed = <<0, 5489>>
    /\ call.extractions = N + 1
    /\ call.twisted /\ call.twists = 2
    /\ call.value = <<63764, 56408>>

\* x is a 32-bit word: in [0, 2^32).
IsWord32(x) == x[1] \in 0..65535 /\ x[2] \in 0..65535

\* C17: in every state of an MT19937 object, from construction with any
\* non-negative seed the time source can supply and after any number of
\* extract_number calls, the cursor is in [0, 624], the state has exactly
\* 624 words, every word is in [0, 2^32), and twist has run exactly on the
\* extractions 1, 625, 1249, ...
C17_StateWellFormed ==
    /\ _mt.index \in 0..N
    /\ Len(_mt.mt) = N
    /\ \A i \in 1..N : IsWord32(_mt.mt[i])
    /\ call.phase = "extract_number" => (call.twisted <=> call.extractions % N = 1)
    /\ call.twists = (call.extractions + N - 1) \div N

---------------------------------------------------------------------------
(* TwoPingMicro.mturandom *)

\* struct.pack('!I', x), x in [0, 2^32)
PackI(x) == <<x[1] \div 256, x[1] % 256, x[2] \div 256, x[2] % 256>>

\* The bytes written for the remainder of 1, 2 or 3 bytes from the word x:
\* pack('!I', x)[1:], pack('!H', x % 65536), pack('!B', x % 256).
\* (RemainderBytes_Leading: the faulty variant taking the leading bytes.)
RemainderBytes_Leading(x, remainder) == SubSeq(PackI(x), 1, remainder)

RemainderBytes(x, remainder) ==
    IF remainder = 3 THEN SliceFrom(PackI(x), 1)
    ELSE IF remainder = 2 THEN PackH(x[2])
    ELSE <<x[2] % 256>>

\* for i in range(int(b / 4)): out[(i*4):(i*4+4)] = struct.pack('!I', ...),
\* from round i on; st is [_mt, out].
RECURSIVE WordLoop(_, _, _)
WordLoop(st, i, rounds) ==
    IF i >= rounds THEN st
    ELSE LET e == extract_number(st._mt)
         IN  WordLoop([_mt |-> e.gen,
                       out |-> SliceAssign(st.out, i * 4, i * 4 + 4, PackI(e.value))],
                      i + 1, rounds)

\* if self._mt is None: the generator is created (and the clock read).
\* (Created_EveryCall: the faulty variant that creates it on every call.)
Created_EveryCall(mt0) == TRUE

Created(mt0) == mt0 = NoMT

\* mturandom(b) on a responder whose generator is mt0 (NoMT before the
\* first call), the clock reading now: the bytes returned, the generator
\* afterwards, and whether time.time() was read.
mturandom(mt0, b, now) ==
    LET created   == Created(mt0)
        g0        == IF created THEN MT19937(now) ELSE mt0
        st        == WordLoop([_mt |-> g0, out |-> Zeros(b)], 0, b \div 4)
        remainder == b % 4
        e         == extract_number(st._mt)
    IN  IF remainder = 0
        THEN [out |-> st.out, _mt |-> st._mt, time_read |-> created]
        ELSE [out |-> SliceAssign(st.out, b - remainder, b,
                                  RemainderBytes(e.value, remainder)),
              _mt |-> e.gen, time_read |-> created]

---------------------------------------------------------------------------
(* mturandom called once on a responder, whose generator is not yet created
   or has been used before. *)

\* The largest number of bytes asked of mturandom.
MaxBytes == 17

\* Readings of int(time.time()): late 2026, and 5489 seconds after the
\* epoch (a clock never set).
Times == {<<27359, 576>>, <<0, 5489>>}

\* The generator g after k more extractions.
RECURSIVE Advance(_, _)
Advance(g, k) ==
    IF k = 0 THEN g
    ELSE IF k = 1 THEN extract_number(g).gen
    ELSE LET half == Advance(g, k \div 2)
         IN  IF half.index <= N THEN Advance(half, k - k \div 2) ELSE half

\* The generator of a responder before a call: none yet, or one seeded
\* earlier and used for 2 words (one identifier) or up to 2 words before the
\* end of the block.
PriorGenerators ==
    {NoMT} \cup { Advance(Advance(MT19937(seed), 2), k) : seed \in Times, k \in {0, N - 4} }

InitMturandom ==
    /\ ProcessIdle
    /\ os_urandom = FALSE
    /\ urandom = "mturandom"
    /\ time_reads = 0
    /\ _mt \in PriorGenerators
    /\ \E b \in 0..MaxBytes, now \in Times :
          /\ _mt = NoMT \/ now = <<27359, 576>>
          /\ call = [phase |-> "called", b |-> b, now |-> now, before |-> _mt, out |-> <<>>]

call_mturandom ==
    /\ call.phase = "called"
    /\ LET r == mturandom(_mt, call.b, call.now)
       IN  /\ _mt' = r._mt
           /\ time_reads' = IF r.time_read THEN time_reads + 1 ELSE time_reads
           /\ call' = [call EXCEPT !.phase = "returned", !.out = r.out]
    /\ UNCHANGED <<program_version, _reply_packet, _sock, pc, data, peer_address,
                   reply_packet, exc, sent, os_urandom, urandom>>

NextMturandom == call_mturandom

SpecMturandom == InitMturandom /\ [][NextMturandom]_vars

\* The next k words of the generator g, each as its 4 bytes, most
\* significant first, and the generator after them.
RECURSIVE Stream(_, _)
Stream(g, k) ==
    IF k = 0 THEN [bytes |-> <<>>, gen |-> g]
    ELSE LET x    == extract_number(g)
             rest == Stream(x.gen, k - 1)
         IN  [bytes |-> <<x.value[1] \div 256, x.value[1] % 256,
                          x.value[2] \div 256, x.value[2] % 256>> \o rest.bytes,
              gen   |-> rest.gen]

\* C13: mturandom(n) returns exactly n bytes and consumes exactly ceil(n/4)
\* words of the stream: the first floor(n/4) words as 4 big-endian bytes
\* each, then, when n mod 4 = r > 0, the trailing r bytes of one more word.
C13_MturandomBytesAndWords ==
    call.phase = "returned" =>
        LET g0     == IF call.before = NoMT THEN MT19937(call.now) ELSE call.before
            n      == call.b
            r      == n % 4
            k      == (n + 3) \div 4
            stream == Stream(g0, k)
        IN  /\ Len(call.out) = n
            /\ call.out = SubSeq(stream.bytes, 1, 4 * (n \div 4))
                          \o SubSeq(stream.bytes, 4 * k - r + 1, 4 * k)
            /\ _mt = stream.gen

\* C13's case: 17 bytes were asked of a generator two words before the end
\* of its block: five words were consumed, across the twist.
C13_Witness ==
    /\ call.phase = "returned"
    /\ call.b = 17 /\ Len(call.out) = 17
    /\ call.before # NoMT /\ call.before.index = N - 2
    /\ _mt.index = 3

---------------------------------------------------------------------------
(* The responder on a platform whose os module has no urandom: __init__
   selects self.mturandom, and parse_packet draws the identifier of each
   reply from the MT19937 generator of the responder. *)

\* The cursor of the generator up to which datagrams are received.
MaxCursor == 6

\* The banners configured: the default, and one too long for the length byte.
FallbackVersions == {DefaultProgramVersion, Text(250)}

\* Datagrams of 3 and of 12 bytes, with every magic, flags and checksum kind.
FallbackDatagrams ==
    { WithChecksum(RawDatagram(m, <<0, 17, 34, 51, 68, 255>>, f, 0, len), c) :
        m \in MagicValues, f \in OpcodeFlags, len \in {3, 12}, c \in ChecksumKinds }

\* parse_packet reaches reply_message_id = self.urandom(6) (line 202): no
\* return and no exception before it.
\* (ReachesUrandom_BeforeFlagTest: the faulty variant that draws the
\* identifier before testing the reply-requested bit.)
ReachesUrandom_BeforeFlagTest(packet) ==
    /\ MagicOk(packet)
    /\ CanUnpackH(packet, 2)
    /\ ChecksumOk(packet)
    /\ CanUnpackH(packet, 10)

ReachesUrandom(packet) ==
    /\ MagicOk(packet)
    /\ CanUnpackH(packet, 2)
    /\ ChecksumOk(packet)
    /\ CanUnpackH(packet, 10)
    /\ ReplyRequested(UnpackH(packet, 10))

InitFallback ==
    /\ ProcessIdle
    /\ os_urandom = FALSE
    /\ urandom = "None"
    /\ _mt = NoMT
    /\ time_reads = 0
    /\ call = NoCall

\* reply_packet = self.parse_packet(memoryview(data)) with self.urandom =
\* self.mturandom; now is what time.time() returns if it is read.
call_parse_packet_mturandom(now) ==
    /\ pc = "parse_packet"
    /\ urandom = "mturandom"
    /\ LET drawn == ReachesUrandom(data)
           m     == mturandom(_mt, 6, now)
           r     == parse_packet(data, _reply_packet, program_version,
                                 IF drawn THEN m.out ELSE <<>>)
       IN  /\ _mt' = IF drawn THEN m._mt ELSE _mt
           /\ time_reads' = IF drawn /\ m.time_read THEN time_reads + 1 ELSE time_reads
           /\ _reply_packet' = r.buf
           /\ IF r.ret = "raise"
              THEN /\ pc' = "raised"
                   /\ exc' = r.exc
                   /\ UNCHANGED <<reply_packet, data, peer_address, sent>>
              ELSE /\ pc' = IF r.ret = "buf" THEN "sendto" ELSE "led_off"
                   /\ reply_packet' = r.ret
                   /\ UNCHANGED <<exc, data, peer_address, sent>>
    /\ UNCHANGED <<program_version, _sock, call, os_urandom, urandom>>

NextFallback ==
    \/ \E version \in FallbackVersions : __init__(version)
    \/ run
    \/ \E d \in FallbackDatagrams, peer \in PeerAddresses :
          _mt.index < MaxCursor /\ recvfrom(d, peer)
    \/ \E now \in Times : call_parse_packet_mturandom(now)
    \/ sendto
    \/ recvfrom_raises
    \/ sendto_raises
    \/ led_off
    \/ close

SpecFallback == InitFallback /\ [][NextFallback]_vars

\* C16: the fallback generator is created and seeded from the clock on the
\* first mturandom call only: once it exists, every later step leaves it or
\* continues it by the two words of one identifier, never reads the clock
\* and never replaces it; creating it is the one reading of the clock.
C16_SeededOnFirstUseOnly ==
    [][ /\ _mt # NoMT =>
              /\ time_reads' = time_reads
              /\ _mt' = _mt \/ _mt' = Advance(_mt, 2)
        /\ (_mt = NoMT /\ _mt' # NoMT) =>
              /\ time_reads = 0 /\ time_reads' = 1
              /\ _mt'.index = 2
        /\ time_reads' <= 1
      ]_vars

\* C16's case: a third identifier has been drawn from the generator created
\* for the first one.
C16_Witness ==
    /\ pc = "sendto" /\ _mt # NoMT /\ _mt.index = 6 /\ time_reads = 1

\* C19: a datagram that yields no reply (wrong magic, checksum mismatch or
\* reply bit clear) leaves the responder as it was: the reply buffer, the
\* generator's words and cursor (no identifier drawn, no clock read) and
\* the configuration are unchanged by its processing.
C19_NoReplyLeavesStateUnchanged ==
    [][ (pc = "parse_packet" /\ pc' = "led_off") =>
            /\ _reply_packet' = _reply_packet
            /\ _mt' = _mt
            /\ time_reads' = time_reads
            /\ program_version' = program_version
            /\ _sock' = _sock /\ urandom' = urandom
      ]_vars

\* C19's case: after a reply, a datagram with a valid checksum and the reply
\* bit clear has been processed: the buffer still holds the earlier reply
\* and the generator is where that reply left it.
C19_Witness ==
    /\ pc = "led_off" /\ reply_packet = "None"
    /\ Len(data) = 12 /\ Accepted(data) /\ Field16(data, 2) # 0
    /\ ~ReplyRequested(UnpackH(data, 10))
    /\ _mt.index = 2
    /\ SelfConsistent(_reply_packet)

---------------------------------------------------------------------------
(* Two TwoPingMicro responders in one process, their run loops interleaved.
   _reply_packet = bytearray(128) is an attribute of the class (line 125);
   no instance ever assigns self._reply_packet (parse_packet only writes
   into it), so self._reply_packet is that one bytearray in both.  call
   holds the locals of the two loops and, for each responder, the bytes
   parse_packet returned to it. *)

Responders == {1, 2}

\* 12-byte datagrams with the magic and no checksum, asking for a reply or not.
TwoDatagrams ==
    { RawDatagram(<<50, 80>>, id, f, 0, 12) : id \in MessageIds, f \in {<<0, 0>>, <<0, 1>>} }

InitTwo ==
    /\ ProcessIdle
    /\ os_urandom = TRUE
    /\ urandom = "os.urandom"
    /\ _mt = NoMT
    /\ time_reads = 0
    /\ call = [phase        |-> "two responders",
               pc           |-> [r \in Responders |-> "recvfrom"],
               data         |-> [r \in Responders |-> <<>>],
               reply_packet |-> [r \in Responders |-> "None"],
               returned     |-> [r \in Responders |-> <<>>]]

TwoUnchanged ==
    UNCHANGED <<program_version, _sock, pc, data, peer_address, reply_packet,
                exc, sent, gen>>

\* (data, peer_address) = self._sock.recvfrom(1024) in responder r
recvfrom_in(r, d) ==
    /\ call.phase = "two responders"
    /\ call.pc[r] = "recvfrom"
    /\ call' = [call EXCEPT !.pc[r] = "parse_packet", !.data[r] = d]
    /\ UNCHANGED _reply_packet
    /\ TwoUnchanged

\* reply_packet = self.parse_packet(memoryview(data)) in responder r, on the
\* bytearray of the class
call_parse_packet_in(r, reply_message_id) ==
    /\ call.phase = "two responders"
    /\ call.pc[r] = "parse_packet"
    /\ LET res == parse_packet(call.data[r], _reply_packet, program_version,
                               reply_message_id)
       IN  /\ _reply_packet' = res.buf
           /\ call' = [call EXCEPT
                         !.pc[r] = IF res.ret = "buf" THEN "sendto" ELSE "recvfrom",
                         !.reply_packet[r] = res.ret,
                         !.returned[r] = IF res.ret = "buf" THEN res.buf ELSE <<>>,
                         !.data[r] = IF res.ret = "buf" THEN @ ELSE <<>>]
    /\ TwoUnchanged

\* self._sock.sendto(reply_packet, peer_address) in responder r, and the end
\* of its iteration
sendto_in(r) ==
    /\ call.phase = "two responders"
    /\ call.pc[r] = "sendto"
    /\ call' = [call EXCEPT !.pc[r] = "recvfrom", !.reply_packet[r] = "None",
                            !.returned[r] = <<>>, !.data[r] = <<>>]
    /\ UNCHANGED _reply_packet
    /\ TwoUnchanged

NextTwo ==
    \/ \E r \in Responders, d \in TwoDatagrams : recvfrom_in(r, d)
    \/ \E r \in Responders, id \in Identifiers : call_parse_packet_in(r, id)
    \/ \E r \in Responders : sendto_in(r)

SpecTwo == InitTwo /\ [][NextTwo]_vars

\* C14: the reply buffer is owned by one responder: while a responder holds
\* a reply that parse_packet returned to it and that it has not yet sent,
\* the bytes of its buffer are those that were returned, whatever the other
\* responder has processed meanwhile.
C14_ReplyBufferOwnedByOneResponder ==
    call.phase = "two responders" =>
        \A r \in Responders :
            call.reply_packet[r] = "buf" => _reply_packet = call.returned[r]

===========================================================================
